---- MODULE Spec2Model ----
(***************************************************************************)
(* Request dispatcher of the two mesh agents                               *)
(*   SolWalletAgent               (src/mesh/sol_wallet_agent.py)           *)
(*   BitquerySolanaTokenInfoAgent (src/mesh/bitquery_solana_token_info_agent.py) *)
(*                                                                         *)
(* handle_message is a coroutine; it is cut into steps at its suspension   *)
(* points (the tool-selection LLM call, the operation handler, the         *)
(* narration LLM call).  The with_retry decorator that wraps it lives in   *)
(* the decorators package, outside the two source files, and is modelled   *)
(* from the interface description of the specification.                    *)
(***************************************************************************)
EXTENDS Naturals, Integers, Sequences, FiniteSets, TLC

VARIABLES
    agent,            \* which agent class the instance is
    params,           \* the params dict given to handle_message
    pc,               \* position of the coroutine
    attempt,          \* execution number of handle_message under with_retry
    session,          \* SolWalletAgent.session
    session_created,  \* local of SolWalletAgent.handle_message
    llmResp,          \* `response` returned by call_llm_with_tools_async
    tool_call,        \* `tool_call` extracted from response["tool_calls"]
    resolved,         \* (tool_name, function_args) given to _handle_tool_logic
    result,           \* `result` returned by the operation handler
    data,             \* `data` returned by _handle_tool_logic
    exc,              \* exception raised inside the current execution
    out,              \* what the caller of handle_message receives
    selectCalls,      \* calls of call_llm_with_tools_async in this execution
    narrateCalls,     \* calls of _respond_with_llm in this execution
    handlerCalls,     \* operation handlers invoked in this execution
    trade_pc,         \* position of get_token_trading_info
    raw_data,         \* what the Bitquery endpoint answers to the trade query
    trading_data,     \* what fetch_and_organize_dex_trade_data returned or raised
    trading_info,     \* value returned by get_token_trading_info
    holders_pc,       \* position of a call of _get_holders
    token_pages,      \* the getTokenAccounts answers, page by page
    top_n,            \* argument top_n of _get_holders
    holders_out,      \* list returned by _get_holders
    analyze_pc,       \* position of a call of analyze_holders
    wallet_data,      \* the searchAssets answer for each owner address
    top_holders,      \* `top_holders` of analyze_holders
    fetch_issued,     \* owner addresses get_wallet_assets was called with
    fetched,          \* tasks of asyncio.gather that have completed
    assets_results,   \* result slots of asyncio.gather
    analysis,         \* list returned by analyze_holders
    ix_pc,            \* position of a call of an operation that reads an indexer
    ix_op,            \* which operation it is
    ix_answers,       \* what the indexer does at the 1st, 2nd, ... request
    ix_calls,         \* requests sent to the indexer so far
    ix_body,          \* how the last execution of the operation's body ended
    ix_out,           \* what the caller of the decorated operation receives
    assets_pc,        \* position of a get_sol_wallet_assets tool call
    assets_resp,      \* the searchAssets answer
    assets_out,       \* list returned for get_sol_wallet_assets
    tx_pc,            \* position of a get_sol_tx_history tool call
    tx_data,          \* the transactions the indexer answers with
    tx_out,           \* list returned for get_sol_tx_history
    tool_pc,          \* position of an analyze_sol_token_holders tool call
    function_args,    \* its function_args (top_n, or Null when absent)
    accounts_found,   \* token accounts the indexer has for the mint
    tool_top_n,       \* top_n that analyze_holders was called with
    tasks_issued,     \* get_wallet_assets tasks analyze_holders created
    self_session,     \* SolWalletAgent.session while callers share the agent
    client_sessions,  \* the aiohttp.ClientSession objects made so far
    in_context,       \* the agent is inside an `async with` block
    calls,            \* the executions of handle_message, one per caller
    overlapped        \* two executions of handle_message were in progress at once

dvars == <<agent, params, pc, attempt, session, session_created, llmResp,
           tool_call, resolved, result, data, exc, out,
           selectCalls, narrateCalls, handlerCalls>>

tvars == <<trade_pc, raw_data, trading_data, trading_info>>

hvars == <<holders_pc, token_pages, top_n, holders_out>>

avars == <<analyze_pc, wallet_data, top_holders, fetch_issued, fetched,
           assets_results, analysis>>

xvars == <<ix_pc, ix_op, ix_answers, ix_calls, ix_body, ix_out>>

wvars == <<assets_pc, assets_resp, assets_out>>

svars == <<tx_pc, tx_data, tx_out>>

nvars == <<tool_pc, function_args, accounts_found, tool_top_n, tasks_issued>>

cvars == <<self_session, client_sessions, in_context, calls, overlapped>>

\* the variables of the single operations checked on their own
ovars == <<xvars, wvars, svars, nvars, cvars>>

vars == <<dvars, tvars, hvars, avars, ovars>>

(***************************************************************************)
(* Bounds and program constants                                            *)
(***************************************************************************)
\* longest list of tool selections the tool-selection call offers
MaxSel == 2

\* @with_retry(max_retries=3)
MaxRetries == 3

Agents == {"sol", "bitquery"}

None == "None"

\* names handled by _handle_tool_logic
ToolNames(a) ==
    IF a = "sol"
    THEN {"get_sol_wallet_assets", "analyze_sol_token_holders", "get_sol_tx_history"}
    ELSE {"get_token_trading_info", "get_top_trending_tokens"}

UnknownTool == "no_such_tool"

\* a Python value is truthy: None and "" are not
Truthy(v) == v # None /\ v # ""

(***************************************************************************)
(* Values                                                                  *)
(***************************************************************************)
\* data objects: shape is dict or list; error is the value under the
\* top-level key "error" of a dict, or None when the key is absent
NoData    == [shape |-> "absent", error |-> None, body |-> "absent"]
EmptyObj  == [shape |-> "dict", error |-> None, body |-> "empty"]
ErrorObj(msg) == [shape |-> "dict", error |-> msg, body |-> "empty"]
DictOk    == [shape |-> "dict", error |-> None, body |-> "result"]
ListOk    == [shape |-> "list", error |-> None, body |-> "items"]
\* get_tx_history's failure value: a list holding one {"error": ...} dict
ListErr   == [shape |-> "list", error |-> None, body |-> "error_item"]

ErrUnsupported  == "Unsupported tool"
ErrMissingInput == "Either 'query' or 'tool' must be provided in the parameters."
ErrNoReply      == "Failed to process query"
ErrHandling     == "Error handling message"
ErrNoTradeData  == "No trading data available"
ErrFetchFailed  == "Failed to fetch"

NoCall == [name |-> None, args |-> None]
NoResp == [empty |-> TRUE, content |-> None, shape |-> None, calls |-> <<>>]
NoOut  == [kind |-> "none", response |-> None, data |-> NoData, error |-> None]

\* return {"response": r, "data": d}
Envelope(r, d) == [kind |-> "envelope", response |-> r, data |-> d, error |-> None]
\* return {"error": msg}
BareError(msg) == [kind |-> "error", response |-> None, data |-> NoData, error |-> msg]
\* the exception leaves handle_message and its decorators
Raised(e)      == [kind |-> "raised", response |-> None, data |-> NoData, error |-> e]

(***************************************************************************)
(* Pure parts of the dispatcher                                            *)
(***************************************************************************)
\* Route with the two tests in the other order
Route_QueryFirst(p) ==
    IF Truthy(p.query) THEN "llm"
    ELSE IF Truthy(p.tool) THEN "direct"
    ELSE "missing"

\* Route without the `if query:` test
Route_NoQueryTest(p) ==
    IF Truthy(p.tool) THEN "direct" ELSE "llm"

\* handle_message: `if tool_name:` ... `if query:` ... else the final return
Route(p) ==
    IF Truthy(p.tool) THEN "direct"
    ELSE IF Truthy(p.query) THEN "llm"
    ELSE "missing"

\* ToolBranch whose last `elif` is an `else`
ToolBranch_LastIsElse(a, name) ==
    IF name \in ToolNames(a) THEN name
    ELSE IF a = "sol" THEN "get_sol_tx_history" ELSE "get_top_trending_tokens"

\* _handle_tool_logic: the if/elif chain over tool_name
ToolBranch(a, name) ==
    IF name \in ToolNames(a) THEN name ELSE "unsupported"

\* _handle_tool_logic: the handlers called with function_args["..."]
RequiresArg(a, name) ==
    name \in {"get_sol_wallet_assets", "analyze_sol_token_holders",
              "get_sol_tx_history", "get_token_trading_info"}

\* the values an operation handler can return
HandlerResults(a, name) ==
    CASE name = "get_sol_wallet_assets"     -> {ListOk}
      [] name = "analyze_sol_token_holders" -> {ListOk}
      [] name = "get_sol_tx_history"        -> {ListOk, ListErr}
      [] name = "get_token_trading_info"    ->
             {DictOk, ErrorObj(ErrNoTradeData), ErrorObj(ErrFetchFailed)}
      [] name = "get_top_trending_tokens"   -> {DictOk, ErrorObj(ErrFetchFailed)}
      [] OTHER -> {}

\* _handle_error: `"error" in maybe_error`; on a list this is membership of
\* the string "error", which no handler's list has
HasErrorKey(r) == r.shape = "dict" /\ r.error # None

\* _handle_error
HandleError(r) == IF HasErrorKey(r) THEN ErrorObj(r.error) ELSE EmptyObj

\* _handle_tool_logic after the handler returned
ToolLogicData(r) == IF HasErrorKey(r) THEN HandleError(r) ELSE r

\* ParseArgs that falls back to {} on a payload it cannot parse
ParseArgs_Lenient(payload) ==
    [ok |-> TRUE, args |-> IF payload = "malformed" THEN "missing" ELSE payload]

\* json.loads(tool_call.function.arguments)
ParseArgs(payload) ==
    IF payload = "malformed"
    THEN [ok |-> FALSE, args |-> None]
    ELSE [ok |-> TRUE, args |-> payload]

\* `if not response`
EmptyReply(resp) == resp.empty

\* `if not response.get("tool_calls")`: None and the empty list are falsy
NoToolCalls(resp) == resp.shape = None \/ Len(resp.calls) = 0

\* the tool call whose .function is read; a list has no attribute `function`
ExtractToolCall(a, resp) ==
    IF a = "sol"
    THEN IF resp.shape = "list"
         THEN [ok |-> FALSE, call |-> NoCall]
         ELSE [ok |-> TRUE, call |-> resp.calls[1]]
    ELSE [ok |-> TRUE, call |-> resp.calls[1]]

\* NoToolReply that drops the LLM's text
NoToolReply_Blank(a, resp) ==
    [ok |-> TRUE, env |-> Envelope("", EmptyObj)]

\* the return taken when the LLM selected no tool
NoToolReply(a, resp) ==
    IF a = "sol"
    THEN IF resp.content = None
         THEN [ok |-> FALSE, env |-> NoOut]
         ELSE [ok |-> TRUE, env |-> Envelope(resp.content, EmptyObj)]
    ELSE [ok |-> TRUE,
          env |-> Envelope(IF resp.content = None THEN "No response content"
                           ELSE resp.content, EmptyObj)]

\* the return after _handle_tool_logic on the LLM route: TRUE when the
\* narration call is made
NeedsNarration(raw, d) == ~raw

\* with_retry retries only the transient transport error classes
Transient(e) == e = "TransportError"

(***************************************************************************)
(* Inputs                                                                  *)
(***************************************************************************)
ParamsSet(a) ==
    [tool : {None, ""} \cup ToolNames(a) \cup {UnknownTool},
     query : {None, "", "q"},
     tool_arguments : {"ok", "missing"},
     raw_data_only : BOOLEAN]

Selections(a) ==
    [name : ToolNames(a) \cup {UnknownTool}, args : {"ok", "missing", "malformed"}]

SelectionLists(a) ==
    UNION {[1..n -> Selections(a)] : n \in 1..MaxSel}

\* what call_llm_with_tools_async can return
LLMResponses(a) ==
    {NoResp}
    \cup [empty : {FALSE}, content : {None, "answer"}, shape : {None}, calls : {<<>>}]
    \cup [empty : {FALSE}, content : {None}, shape : {"list"}, calls : {<<>>}]
    \cup {[empty |-> FALSE, content |-> None, shape |-> "single", calls |-> <<c>>]
            : c \in Selections(a)}
    \cup [empty : {FALSE}, content : {None}, shape : {"list"}, calls : SelectionLists(a)]

Prose == {"explanation"}

(***************************************************************************)
(* Steps of handle_message                                                 *)
(***************************************************************************)
\* a `return` inside the try block, followed by the finally clause of
\* SolWalletAgent.handle_message: a session this call created is closed and
\* the attribute is set to None in every case (the sessions themselves are
\* followed in SpecSession)
Return(o) ==
    /\ out' = o
    /\ pc' = "done"
    /\ session' = None

\* an exception inside the body: SolWalletAgent catches every Exception and
\* returns an error dict; the Bitquery agent lets it reach with_retry
Raise(e) ==
    /\ exc' = e
    /\ IF agent = "sol"
       THEN Return(BareError(ErrHandling))
       ELSE /\ pc' = "wrapper"
            /\ out' = out
            /\ session' = session

\* handle_message from its first line up to its first suspension point
Begin(p) ==
    LET created == agent = "sol" /\ session = None
        sess    == IF created THEN "open" ELSE session
    IN  /\ params' = p
        /\ session_created' = created
        /\ llmResp' = NoResp
        /\ tool_call' = NoCall
        /\ result' = NoData
        /\ data' = NoData
        /\ exc' = None
        /\ selectCalls' = 0
        /\ narrateCalls' = 0
        /\ handlerCalls' = 0
        /\ CASE Route(p) = "direct" ->
                  /\ pc' = "invoke"
                  /\ resolved' = [name |-> p.tool, args |-> p.tool_arguments]
                  /\ session' = sess
                  /\ out' = NoOut
             [] Route(p) = "llm" ->
                  /\ pc' = "select"
                  /\ resolved' = NoCall
                  /\ session' = sess
                  /\ out' = NoOut
             [] OTHER ->
                  /\ resolved' = NoCall
                  /\ Return(BareError(ErrMissingInput))

\* a caller awaits handle_message(params)
handle_message(p) ==
    /\ pc \in {"idle", "done"}
    /\ attempt' = 1
    /\ Begin(p)
    /\ UNCHANGED agent

\* the rest of handle_message once _handle_tool_logic has produced d
AfterToolLogic(d) ==
    /\ data' = d
    /\ IF Route(params) = "direct"
       THEN Return(Envelope("", d))
       ELSE IF ~NeedsNarration(params.raw_data_only, d)
            THEN Return(Envelope("", d))
            ELSE /\ pc' = "narrate"
                 /\ out' = out
                 /\ session' = session

\* _handle_tool_logic(tool_name, function_args) and what follows it up to
\* the next suspension point or return
Invoke ==
    /\ pc = "invoke"
    /\ LET br == ToolBranch(agent, resolved.name) IN
       \/ /\ br = "unsupported"
          /\ AfterToolLogic(ErrorObj(ErrUnsupported))
          /\ UNCHANGED <<result, exc, handlerCalls>>
       \/ /\ br # "unsupported"
          /\ RequiresArg(agent, br)
          /\ resolved.args = "missing"
          /\ Raise("KeyError")
          /\ UNCHANGED <<result, data, handlerCalls>>
       \/ /\ br # "unsupported"
          /\ ~(RequiresArg(agent, br) /\ resolved.args = "missing")
          /\ \E r \in HandlerResults(agent, br) :
                /\ result' = r
                /\ handlerCalls' = handlerCalls + 1
                /\ AfterToolLogic(ToolLogicData(r))
          /\ UNCHANGED exc
    /\ UNCHANGED <<agent, params, attempt, session_created, llmResp, tool_call,
                   resolved, selectCalls, narrateCalls>>

\* call_llm_with_tools_async returns resp; handle_message runs on to the
\* call of _handle_tool_logic
SelectReturns(resp) ==
    /\ pc = "select"
    /\ selectCalls' = selectCalls + 1
    /\ llmResp' = resp
    /\ IF EmptyReply(resp)
       THEN /\ Return(BareError(ErrNoReply))
            /\ UNCHANGED <<tool_call, resolved, exc>>
       ELSE IF NoToolCalls(resp)
       THEN /\ IF NoToolReply(agent, resp).ok
               THEN Return(NoToolReply(agent, resp).env) /\ UNCHANGED exc
               ELSE Raise("KeyError")
            /\ UNCHANGED <<tool_call, resolved>>
       ELSE LET ex == ExtractToolCall(agent, resp) IN
            IF ~ex.ok
            THEN /\ Raise("AttributeError")
                 /\ UNCHANGED <<tool_call, resolved>>
            ELSE /\ tool_call' = ex.call
                 /\ IF ParseArgs(ex.call.args).ok
                    THEN /\ resolved' = [name |-> ex.call.name,
                                         args |-> ParseArgs(ex.call.args).args]
                         /\ pc' = "invoke"
                         /\ UNCHANGED <<exc, out, session>>
                    ELSE /\ Raise("JSONDecodeError")
                         /\ UNCHANGED resolved
    /\ UNCHANGED <<agent, params, attempt, session_created, result, data,
                   narrateCalls, handlerCalls>>

\* call_llm_with_tools_async fails with a transport error
SelectFails ==
    /\ pc = "select"
    /\ selectCalls' = selectCalls + 1
    /\ Raise("TransportError")
    /\ UNCHANGED <<agent, params, attempt, session_created, llmResp, tool_call,
                   resolved, result, data, narrateCalls, handlerCalls>>

\* _respond_with_llm returns the explanation
NarrateReturns(text) ==
    /\ pc = "narrate"
    /\ narrateCalls' = narrateCalls + 1
    /\ Return(Envelope(text, data))
    /\ UNCHANGED <<agent, params, attempt, session_created, llmResp, tool_call,
                   resolved, result, data, exc, selectCalls, handlerCalls>>

\* _respond_with_llm fails with a transport error
NarrateFails ==
    /\ pc = "narrate"
    /\ narrateCalls' = narrateCalls + 1
    /\ Raise("TransportError")
    /\ UNCHANGED <<agent, params, attempt, session_created, llmResp, tool_call,
                   resolved, result, data, selectCalls, handlerCalls>>

(***************************************************************************)
(* with_retry(max_retries=3) around handle_message                         *)
(***************************************************************************)
\* a transient error with attempts left: handle_message is executed again
WithRetryAgain ==
    /\ pc = "wrapper"
    /\ Transient(exc)
    /\ attempt < MaxRetries
    /\ attempt' = attempt + 1
    /\ Begin(params)
    /\ UNCHANGED agent

\* any other error, or the attempts are used up: the error reaches the caller
WithRetryGiveUp ==
    /\ pc = "wrapper"
    /\ ~(Transient(exc) /\ attempt < MaxRetries)
    /\ out' = Raised(exc)
    /\ pc' = "done"
    /\ UNCHANGED <<agent, params, attempt, session, session_created, llmResp,
                   tool_call, resolved, result, data, exc,
                   selectCalls, narrateCalls, handlerCalls>>

(***************************************************************************)
(* The operations behind the handlers have their own specifications        *)
(* further down; they are at rest while the dispatcher runs.               *)
(***************************************************************************)
\* a missing (null) numeric field of an upstream JSON object
Null == 0 - 1

NoRawData     == [kind |-> "none", buckets |-> <<>>]
NoTradingInfo == [kind |-> "none", error |-> None, summary |-> <<>>,
                  detailed_data |-> <<>>]

NoTradingData == [ok |-> FALSE, data |-> <<>>]

TradeAtRest ==
    /\ trade_pc = "rest"
    /\ raw_data = NoRawData
    /\ trading_data = NoTradingData
    /\ trading_info = NoTradingInfo

HoldersAtRest ==
    /\ holders_pc = "rest"
    /\ token_pages = <<>>
    /\ top_n = 0
    /\ holders_out = <<>>

AnalyzeAtRest ==
    /\ analyze_pc = "rest"
    /\ wallet_data = <<>>
    /\ top_holders = <<>>
    /\ fetch_issued = {}
    /\ fetched = {}
    /\ assets_results = <<>>
    /\ analysis = <<>>

NoBody == [kind |-> "none", exc |-> None]

IndexerAtRest ==
    /\ ix_pc = "rest"
    /\ ix_op = None
    /\ ix_answers = <<>>
    /\ ix_calls = 0
    /\ ix_body = NoBody
    /\ ix_out = NoBody

AssetsAtRest ==
    /\ assets_pc = "rest"
    /\ assets_resp = [kind |-> "none", items |-> <<>>, native |-> Null]
    /\ assets_out = <<>>

TxAtRest ==
    /\ tx_pc = "rest"
    /\ tx_data = [kind |-> "none", txs |-> <<>>]
    /\ tx_out = <<>>

ToolAtRest ==
    /\ tool_pc = "rest"
    /\ function_args = Null
    /\ accounts_found = 0
    /\ tool_top_n = 0
    /\ tasks_issued = 0

\* most aiohttp.ClientSession objects made in one behaviour
MaxSessions == 3
\* most network requests one execution of handle_message sends
MaxRequests == 2
\* self.session = None
NoSession == 0
\* the tasks that await handle_message on one agent
Callers == {"c1", "c2"}
NoCallYet == [pc |-> "idle", session_created |-> FALSE, requests |-> 0,
              using |-> NoSession, found |-> "none"]

SessionAtRest ==
    /\ self_session = NoSession
    /\ client_sessions = [s \in 1..MaxSessions |-> "unborn"]
    /\ in_context = FALSE
    /\ calls = [c \in Callers |-> NoCallYet]
    /\ overlapped = FALSE

OthersAtRest ==
    IndexerAtRest /\ AssetsAtRest /\ TxAtRest /\ ToolAtRest /\ SessionAtRest

(***************************************************************************)
(* Specification                                                           *)
(***************************************************************************)
DispatcherInit ==
    /\ agent \in Agents
    /\ params = [tool |-> None, query |-> None, tool_arguments |-> "missing",
                 raw_data_only |-> FALSE]
    /\ pc = "idle"
    /\ attempt = 0
    /\ session = None
    /\ session_created = FALSE
    /\ llmResp = NoResp
    /\ tool_call = NoCall
    /\ resolved = NoCall
    /\ result = NoData
    /\ data = NoData
    /\ exc = None
    /\ out = NoOut
    /\ selectCalls = 0
    /\ narrateCalls = 0
    /\ handlerCalls = 0

Init ==
    /\ DispatcherInit
    /\ TradeAtRest
    /\ HoldersAtRest
    /\ AnalyzeAtRest
    /\ OthersAtRest

Next ==
    \/ (\E p \in ParamsSet(agent) : handle_message(p)) /\ UNCHANGED <<tvars, hvars, avars, ovars>>
    \/ Invoke /\ UNCHANGED <<tvars, hvars, avars, ovars>>
    \/ (\E resp \in LLMResponses(agent) : SelectReturns(resp)) /\ UNCHANGED <<tvars, hvars, avars, ovars>>
    \/ SelectFails /\ UNCHANGED <<tvars, hvars, avars, ovars>>
    \/ (\E text \in Prose : NarrateReturns(text)) /\ UNCHANGED <<tvars, hvars, avars, ovars>>
    \/ NarrateFails /\ UNCHANGED <<tvars, hvars, avars, ovars>>
    \/ WithRetryAgain /\ UNCHANGED <<tvars, hvars, avars, ovars>>
    \/ WithRetryGiveUp /\ UNCHANGED <<tvars, hvars, avars, ovars>>

Spec == Init /\ [][Next]_vars

TypeOK ==
    /\ agent \in Agents
    /\ params \in ParamsSet(agent)
    /\ pc \in {"idle", "invoke", "select", "narrate", "wrapper", "done"}
    /\ attempt \in 0..MaxRetries
    /\ session \in {None, "open"}
    /\ session_created \in BOOLEAN
    /\ selectCalls \in 0..1
    /\ narrateCalls \in 0..1
    /\ handlerCalls \in 0..1

(***************************************************************************)
(* Properties of the dispatcher                                            *)
(***************************************************************************)
Direct(p)  == Truthy(p.tool)
Neither(p) == ~Truthy(p.tool) /\ ~Truthy(p.query)
Both(p)    == Truthy(p.tool) /\ Truthy(p.query)

\* C1: a direct request (an operation name is given) makes no LLM call:
\* neither the tool-selection call nor the narration call happens in any
\* execution of handle_message, whatever the handler returns or raises.
C1_DirectNoLLM ==
    Direct(params) =>
        /\ selectCalls = 0
        /\ narrateCalls = 0
        /\ pc \notin {"select", "narrate"}

C1_Witness ==
    /\ pc = "done"
    /\ Direct(params)
    /\ handlerCalls = 1
    /\ out = Envelope("", result)

\* C2: a request with neither an operation name nor a natural-language text
\* ends at once with the MissingInput error; no handler is invoked and no
\* LLM call is made.
C2_MissingInput ==
    (Neither(params) /\ pc # "idle") =>
        /\ pc = "done"
        /\ out = BareError(ErrMissingInput)
        /\ handlerCalls = 0
        /\ selectCalls = 0
        /\ narrateCalls = 0

C2_Witness ==
    /\ pc = "done"
    /\ Neither(params)
    /\ params.query = ""
    /\ out.error = ErrMissingInput

\* C3: every terminal output of handle_message is an envelope with a
\* `response` field and a `data` field, errors being carried inside `data`.
C3_AlwaysEnvelope ==
    pc = "done" => out.kind = "envelope"

\* C4: when the data returned by the invoked operation carries an `error`
\* key, the request ends with that error unchanged and the narration call is
\* never made, also on the LLM route with raw_data_only false.
C4_ErrorSkipsNarration ==
    (handlerCalls = 1 /\ HasErrorKey(result)) =>
        /\ pc # "narrate"
        /\ narrateCalls = 0
        /\ (pc = "done" => out.kind = "envelope" /\ out.data = result)

\* C5: on the LLM route, a reply with free text and zero tool calls ends the
\* request with response = that text and data = {}; no handler and no
\* narration call is made.
C5_NoToolSelection ==
    (selectCalls = 1 /\ ~llmResp.empty /\ Len(llmResp.calls) = 0
        /\ llmResp.content # None) =>
        /\ pc = "done"
        /\ out = Envelope(llmResp.content, EmptyObj)
        /\ handlerCalls = 0
        /\ narrateCalls = 0

C5_Witness ==
    /\ pc = "done"
    /\ Route(params) = "llm"
    /\ selectCalls = 1
    /\ llmResp.content = "answer"
    /\ out.response = "answer"
    /\ out.data = EmptyObj

\* C6: when the tool-selection call offers more than one selection, exactly
\* the first is resolved and invoked, the others are ignored, and the
\* request does not fail because several were offered; in both agents.
C6_FirstSelectionOnly ==
    (selectCalls = 1 /\ Len(llmResp.calls) > 1) =>
        /\ exc # "AttributeError"
        /\ tool_call = llmResp.calls[1]
        /\ (pc \in {"invoke", "narrate"} => resolved.name = llmResp.calls[1].name)

C8_UnsupportedOperation ==
    (resolved.name # None /\ resolved.name \notin ToolNames(agent)) =>
        /\ handlerCalls = 0
        /\ (pc # "invoke" => data = ErrorObj(ErrUnsupported))
        /\ (pc = "done" /\ exc = None =>
                /\ out.kind = "envelope"
                /\ out.data = ErrorObj(ErrUnsupported))

C8_Witness ==
    /\ pc = "done"
    /\ Route(params) = "llm"
    /\ tool_call.name = UnknownTool
    /\ resolved.name = UnknownTool
    /\ out.data = ErrorObj(ErrUnsupported)

\* C9 as stated: a request is accepted only when exactly one of the two
\* forms is present; with both present it does not proceed to Invoke, just
\* as with neither.
C9_ExactlyOneForm ==
    (Both(params) \/ Neither(params)) =>
        /\ pc # "invoke"
        /\ handlerCalls = 0

\* C9 amended: a request with neither form does not proceed to Invoke and
\* ends with MissingInput; a request with both forms is handled as a direct
\* request: its operation name is dispatched, its text is ignored and no
\* LLM call is made.
C9_ToolTakesPrecedence ==
    /\ (Neither(params) /\ pc # "idle") =>
          (pc = "done" /\ handlerCalls = 0 /\ out.error = ErrMissingInput)
    /\ Both(params) =>
          /\ pc \in {"invoke", "wrapper", "done"}
          /\ resolved = [name |-> params.tool, args |-> params.tool_arguments]
          /\ selectCalls = 0
          /\ narrateCalls = 0
          /\ (pc = "done" /\ exc = None => out = Envelope("", data))

C9_Witness ==
    /\ pc = "done"
    /\ Both(params)
    /\ handlerCalls = 1
    /\ out = Envelope("", result)

\* C10: the narration call is made only for an LLM-routed request with a
\* tool selection and raw_data_only false, and the response returned after
\* it is that prose; a direct request, and an LLM-routed request with
\* raw_data_only true, that reached _handle_tool_logic returns response ""
\* with the result of the operation in data.
C10_NarrationAndRawReturn ==
    /\ narrateCalls > 0 =>
          /\ Route(params) = "llm"
          /\ tool_call # NoCall
          /\ ~params.raw_data_only
    /\ (pc = "done" /\ narrateCalls > 0 /\ exc = None) =>
          (out.kind = "envelope" /\ out.response \in Prose /\ out.data = data)
    /\ (pc = "done" /\ resolved # NoCall
            /\ (Direct(params) \/ params.raw_data_only)) =>
          out = Envelope("", data)

\* a direct request that names a registered operation and leaves out the
\* argument its handler is called with
LacksRequired(p) ==
    /\ Direct(p)
    /\ p.tool \in ToolNames(agent)
    /\ RequiresArg(agent, p.tool)
    /\ p.tool_arguments = "missing"

\* C31: a direct request that names a registered operation but whose
\* arguments lack a required field is rejected with an error-flagged
\* output (an error dict, or an envelope whose data has an error key): the
\* handler is not invoked and no exception leaves handle_message, in both
\* agents.
C31_MissingRequiredArgument ==
    (LacksRequired(params) /\ pc # "idle") =>
        /\ handlerCalls = 0
        /\ pc # "wrapper"
        /\ (pc = "done" =>
               \/ out.kind = "error"
               \/ out.kind = "envelope" /\ HasErrorKey(out.data))

\* the handler's return value reports a failure: an error dict, or the
\* list with one error item that get_tx_history returns
ReportsFailure(r) == r.error # None \/ r.body = "error_item"

\* C34: whenever an operation handler reports a failure, the envelope's
\* data is an object with a top-level `error` key, the one _handle_error
\* detects; a failed get_sol_tx_history call is returned as data carrying
\* `error`, not as a list result.
C34_FailureIsErrorObject ==
    (pc = "done" /\ exc = None /\ handlerCalls = 1 /\ ReportsFailure(result)) =>
        /\ out.kind = "envelope"
        /\ out.data.shape = "dict"
        /\ HasErrorKey(out.data)

(***************************************************************************)
(* Trade-bucket organizer and trade summary                                *)
(*   fetch_and_organize_dex_trade_data, get_token_trading_info             *)
(* Prices, times and volumes are small integers; a numeric string of the   *)
(* API is written as the number it spells.                                 *)
(***************************************************************************)
\* most buckets in one API answer
MaxBuckets == 2

\* a volume string that float() cannot parse
Unparsable == 0 - 2

\* stable sort of seq by ascending key[i] (list.sort / sorted are stable)
StableSortAsc(seq, key) ==
    LET n == Len(seq)
        rank(i) == Cardinality({j \in 1..n :
                       key[j] < key[i] \/ (key[j] = key[i] /\ j < i)}) + 1
    IN  [r \in 1..n |-> seq[CHOOSE i \in 1..n : rank(i) = r]]

RECURSIVE SumSeq(_)
SumSeq(q) == IF q = <<>> THEN 0 ELSE q[1] + SumSeq(Tail(q))

SeqMax(q) == CHOOSE m \in {q[i] : i \in 1..Len(q)} : \A i \in 1..Len(q) : q[i] <= m
SeqMin(q) == CHOOSE m \in {q[i] : i \in 1..Len(q)} : \A i \in 1..Len(q) : m <= q[i]

PriceRanges == {[min |-> 0, max |-> 3], [min |-> 1, max |-> 4]}

RawBucket(t, o, c, r, v) ==
    [time |-> t, open |-> o, close |-> c, min |-> r.min, max |-> r.max, volume |-> v]

WellFormedBuckets ==
    {RawBucket(t, o, c, r, v) :
        t \in {1, 2}, o \in {0, 2}, c \in {1, 3}, r \in PriceRanges, v \in {5, 7}}

MalformedBuckets ==
    LET r == [min |-> 0, max |-> 3] IN
    {RawBucket(Null, 2, 3, r, 5), RawBucket(1, Null, 3, r, 5),
     RawBucket(1, 2, 3, r, Unparsable), RawBucket(1, 2, 3, r, Null)}

RawBuckets == WellFormedBuckets \cup MalformedBuckets

\* outcomes of requests.post and of reading raw_data["data"]["Solana"][...]
RawResponses ==
    {[kind |-> k, buckets |-> <<>>] : k \in {"raise", "status", "shape"}}
    \cup {[kind |-> "ok", buckets |-> b] :
            b \in UNION {[1..n -> RawBuckets] : n \in 0..MaxBuckets}}

\* float(volume_str): ValueError keeps the string, None raises TypeError
ParseVolume(v) ==
    IF v = Null THEN [ok |-> FALSE, value |-> v] ELSE [ok |-> TRUE, value |-> v]

OrganizeBucket(b) ==
    [time |-> b.time, open |-> b.open, high |-> b.max, low |-> b.min,
     close |-> b.close, volume |-> ParseVolume(b.volume).value]

\* SortByTime that leaves the API order
SortByTime_ApiOrder(d) == [ok |-> TRUE, data |-> d]

\* organized_data.sort(key=lambda x: x["time"]): comparing None raises
SortByTime(d) ==
    IF Len(d) >= 2 /\ \E i \in 1..Len(d) : d[i].time = Null
    THEN [ok |-> FALSE, data |-> <<>>]
    ELSE [ok |-> TRUE,
          data |-> StableSortAsc(d, [i \in 1..Len(d) |-> d[i].time])]

\* fetch_and_organize_dex_trade_data: ok is FALSE when it raises
fetch_and_organize_dex_trade_data(resp) ==
    IF resp.kind # "ok" THEN NoTradingData
    ELSE IF \E i \in 1..Len(resp.buckets) : ~ParseVolume(resp.buckets[i].volume).ok
    THEN NoTradingData
    ELSE SortByTime([i \in 1..Len(resp.buckets) |-> OrganizeBucket(resp.buckets[i])])

\* PctOf without the test of first_data["open"]
PctOf_Unguarded(change, open) == [num |-> change * 100, den |-> open]

\* (price_change / open) * 100 if open != 0 else 0, as the fraction num/den
PctOf(change, open) ==
    IF open # 0 THEN [num |-> change * 100, den |-> open]
    ELSE [num |-> 0, den |-> 1]

\* the arithmetic of the summary raises TypeError on a None or a string
SummaryFails(td) ==
    \/ td[Len(td)].close = Null
    \/ td[1].open = Null
    \/ \E i \in 1..Len(td) : td[i].volume = Unparsable
    \/ Len(td) >= 2 /\ \E i \in 1..Len(td) : td[i].high = Null \/ td[i].low = Null

\* the summary dict (last_updated, the wall clock, is left out)
TradeSummary(td) ==
    LET latest_data  == td[Len(td)]
        first_data   == td[1]
        price_change == latest_data.close - first_data.open
    IN  [current_price |-> latest_data.close,
         price_change_1h |-> price_change,
         price_change_percentage_1h |-> PctOf(price_change, first_data.open),
         highest_price_1h |-> SeqMax([i \in 1..Len(td) |-> td[i].high]),
         lowest_price_1h |-> SeqMin([i \in 1..Len(td) |-> td[i].low]),
         total_volume_1h |-> SumSeq([i \in 1..Len(td) |-> td[i].volume])]

TradeError(msg) ==
    [kind |-> "error", error |-> msg, summary |-> <<>>, detailed_data |-> <<>>]

\* EmptyOutcome reported like a failed fetch
EmptyOutcome_AsFailure == TradeError(ErrFetchFailed)

\* return {"error": "No trading data available"}
EmptyOutcome == TradeError(ErrNoTradeData)

\* the body of get_token_trading_info after the fetch
TradingInfo(t) ==
    IF ~t.ok THEN TradeError(ErrFetchFailed)
    ELSE IF t.data = <<>> THEN EmptyOutcome
    ELSE IF SummaryFails(t.data) THEN TradeError(ErrFetchFailed)
    ELSE [kind |-> "ok", error |-> None, summary |-> TradeSummary(t.data),
          detailed_data |-> t.data]

get_token_trading_info ==
    /\ trade_pc = "start"
    /\ trading_data' = fetch_and_organize_dex_trade_data(raw_data)
    /\ trading_info' = TradingInfo(trading_data')
    /\ trade_pc' = "done"
    /\ UNCHANGED <<raw_data, dvars, hvars, avars, ovars>>

DispatcherAtRest == DispatcherInit /\ agent = "bitquery"

InitTrade ==
    /\ DispatcherAtRest
    /\ HoldersAtRest
    /\ AnalyzeAtRest
    /\ OthersAtRest
    /\ trade_pc = "start"
    /\ raw_data \in RawResponses
    /\ trading_data = NoTradingData
    /\ trading_info = NoTradingInfo

NextTrade == get_token_trading_info

SpecTrade == InitTrade /\ [][NextTrade]_vars

\* C17: the bucket sequence returned by the organizer is sorted
\* non-decreasing by time, whatever the order of the API answer; it holds
\* the same buckets as the answer.
C17_SortedByTime ==
    (trade_pc = "done" /\ trading_data.ok) =>
        LET d == trading_data.data IN
        /\ \A i, j \in 1..Len(d) : i < j => d[i].time <= d[j].time
        /\ Len(d) = Len(raw_data.buckets)
        /\ \A b \in RawBuckets :
              Cardinality({i \in 1..Len(d) : d[i] = OrganizeBucket(b)})
                = Cardinality({i \in 1..Len(d) : raw_data.buckets[i] = b})

C17_Witness ==
    /\ trade_pc = "done"
    /\ trading_data.ok
    /\ Len(raw_data.buckets) = 2
    /\ raw_data.buckets[1].time > raw_data.buckets[2].time
    /\ trading_data.data[1].time < trading_data.data[2].time

AllWellFormed(bs) == \A i \in 1..Len(bs) : bs[i] \in WellFormedBuckets

\* C18: for a non-empty sequence of well-formed buckets the summary has
\* price_change = last.close - first.open, price_change_pct =
\* price_change/first.open*100 when first.open is not 0 and exactly 0 (no
\* error) when it is 0, high = the greatest bucket high, low = the least
\* bucket low, total_volume = the sum of the volumes; first and last are an
\* earliest and a latest bucket by time.
C18_TradeSummary ==
    (trade_pc = "done" /\ raw_data.kind = "ok" /\ raw_data.buckets # <<>>
        /\ AllWellFormed(raw_data.buckets)) =>
        LET bs == raw_data.buckets
            n  == Len(bs)
            sm == trading_info.summary
        IN  /\ trading_info.kind = "ok"
            /\ \E f, l \in 1..n :
                  /\ \A i \in 1..n : bs[f].time <= bs[i].time /\ bs[i].time <= bs[l].time
                  /\ sm.current_price = bs[l].close
                  /\ sm.price_change_1h = bs[l].close - bs[f].open
                  /\ bs[f].open = 0 =>
                        sm.price_change_percentage_1h = [num |-> 0, den |-> 1]
                  /\ bs[f].open # 0 =>
                        /\ sm.price_change_percentage_1h.den = bs[f].open
                        /\ sm.price_change_percentage_1h.num
                              = (bs[l].close - bs[f].open) * 100
            /\ \A i \in 1..n : bs[i].max <= sm.highest_price_1h
            /\ \E i \in 1..n : bs[i].max = sm.highest_price_1h
            /\ \A i \in 1..n : sm.lowest_price_1h <= bs[i].min
            /\ \E i \in 1..n : bs[i].min = sm.lowest_price_1h
            /\ sm.total_volume_1h = SumSeq([i \in 1..n |-> bs[i].volume])

C18_Witness ==
    /\ trade_pc = "done"
    /\ trading_info.kind = "ok"
    /\ Len(raw_data.buckets) = 2
    /\ AllWellFormed(raw_data.buckets)
    /\ trading_info.detailed_data[1].open = 0
    /\ trading_info.summary.price_change_1h = 3
    /\ trading_info.summary.price_change_percentage_1h = [num |-> 0, den |-> 1]

\* C19: an empty bucket sequence yields the error "No trading data
\* available"; a failed upstream call (transport failure or a status other
\* than 200) yields an error too, but a different one.
C19_NoDataDistinctFromFailure ==
    trade_pc = "done" =>
        /\ (raw_data.kind = "ok" /\ raw_data.buckets = <<>>) =>
              (trading_info.kind = "error" /\ trading_info.error = ErrNoTradeData)
        /\ raw_data.kind \in {"raise", "status"} =>
              (trading_info.kind = "error" /\ trading_info.error # ErrNoTradeData)

C19_Witness ==
    /\ trade_pc = "done"
    /\ raw_data.kind = "ok"
    /\ raw_data.buckets = <<>>
    /\ trading_info.error = ErrNoTradeData

\* C30: a bucket with a missing or malformed field (absent time, null
\* open/high/low/close, unparsable or null volume) does not fail the request:
\* the volume parse never raises and the organizer and the summary complete
\* with a non-error result.
C30_MalformedBucketTolerated ==
    (trade_pc = "done" /\ raw_data.kind = "ok" /\ raw_data.buckets # <<>>) =>
        /\ \A i \in 1..Len(raw_data.buckets) : ParseVolume(raw_data.buckets[i].volume).ok
        /\ trading_data.ok
        /\ trading_info.kind # "error"

(***************************************************************************)
(* Holder lookup: SolWalletAgent._get_holders                              *)
(* Amounts are small integers (the API sends them as numeric strings); a   *)
(* percentage string "12.34" is written as its hundredths, 1234.           *)
(***************************************************************************)
\* most pages of token accounts, and most accounts on a page
MaxPages == 2
MaxPerPage == 2

\* the j-th account of a page belongs to w1 or w2 in turn
OwnerAt(j) == IF j % 2 = 1 THEN "w1" ELSE "w2"

\* the amounts token accounts are given
Amounts == {0, 1, 3}

AccountLists ==
    UNION {{[j \in 1..n |-> [owner |-> OwnerAt(j), amount |-> a[j]]] :
               a \in [1..n -> Amounts]} : n \in 0..MaxPerPage}

\* one answer of self._post: the call raises, or the status is neither 200
\* nor 429 and _request returns {}, or the JSON result
TokenPages ==
    {[kind |-> k, accounts |-> <<>>, cursor |-> FALSE] : k \in {"raise", "http_error"}}
    \cup [kind : {"ok"}, accounts : AccountLists, cursor : BOOLEAN]

\* the answers after which the loop asks for another page
MorePages == {p \in TokenPages : p.kind = "ok" /\ p.accounts # <<>> /\ p.cursor}

\* the answers the loop can receive, in order
PageSequences ==
    UNION {{q \in [1..n -> TokenPages] : \A k \in 1..(n - 1) : q[k] \in MorePages} :
              n \in 0..MaxPages}

\* the `while True` loop: ok is FALSE when a _post raised
RECURSIVE CollectAccounts(_, _, _)
CollectAccounts(pages, k, all_holders) ==
    IF k > Len(pages) THEN [ok |-> TRUE, accounts |-> all_holders]
    ELSE IF pages[k].kind = "raise" THEN [ok |-> FALSE, accounts |-> <<>>]
    ELSE IF pages[k].kind = "http_error" \/ pages[k].accounts = <<>>
    THEN [ok |-> TRUE, accounts |-> all_holders]
    ELSE IF ~pages[k].cursor
    THEN [ok |-> TRUE, accounts |-> all_holders \o pages[k].accounts]
    ELSE CollectAccounts(pages, k + 1, all_holders \o pages[k].accounts)

\* f"{(amount / total_supply * 100):.2f}", in hundredths, for total_supply > 0
FormatPercentage(amount, total_supply) ==
    (amount * 10000 * 2 + total_supply) \div (2 * total_supply)

\* sequence[:n] for n >= 0
Take(q, n) == IF n >= Len(q) THEN q ELSE SubSeq(q, 1, n)

\* sorted(q, key=..., reverse=True): stable, greatest key first
StableSortDesc(q, key) ==
    StableSortAsc(q, [i \in 1..Len(q) |-> 0 - key[i]])

\* what _get_holders returns; every exception ends in `return []`
GetHolders(pages, n) ==
    LET c == CollectAccounts(pages, 1, <<>>)
        all_holders == c.accounts
        total_supply == SumSeq([i \in 1..Len(all_holders) |-> all_holders[i].amount])
        holders == [i \in 1..Len(all_holders) |->
                      [address |-> all_holders[i].owner,
                       amount |-> all_holders[i].amount,
                       percentage |->
                           FormatPercentage(all_holders[i].amount, total_supply)]]
    IN  IF ~c.ok THEN <<>>
        ELSE IF all_holders = <<>> THEN <<>>
        ELSE IF total_supply = 0 THEN <<>>
        ELSE Take(StableSortDesc(holders,
                     [i \in 1..Len(holders) |-> holders[i].amount]), n)

get_holders ==
    /\ holders_pc = "start"
    /\ holders_out' = GetHolders(token_pages, top_n)
    /\ holders_pc' = "done"
    /\ UNCHANGED <<token_pages, top_n, dvars, tvars, avars, ovars>>

SolAtRest == DispatcherInit /\ agent = "sol"

InitHolders ==
    /\ SolAtRest
    /\ TradeAtRest
    /\ AnalyzeAtRest
    /\ OthersAtRest
    /\ holders_pc = "start"
    /\ token_pages \in PageSequences
    /\ top_n \in {1, 20}
    /\ holders_out = <<>>

NextHolders == get_holders

SpecHolders == InitHolders /\ [][NextHolders]_vars

\* the accounts the lookup has read when no call failed
AccountsRead(pages) == CollectAccounts(pages, 1, <<>>).accounts

\* C20: the percentage computation yields "0.00" whenever the total of the
\* fetched amounts is 0: a zero total causes no division fault and the
\* holder list is not lost.
C20_ZeroTotal ==
    (holders_pc = "done" /\ CollectAccounts(token_pages, 1, <<>>).ok
        /\ AccountsRead(token_pages) # <<>>
        /\ \A i \in 1..Len(AccountsRead(token_pages)) :
               AccountsRead(token_pages)[i].amount = 0) =>
        /\ holders_out # <<>>
        /\ \A i \in 1..Len(holders_out) : holders_out[i].percentage = 0

\* C21: the two-decimal percentages of the holders returned for one token
\* sum to at most 100 (10000 hundredths), for every number of holders and
\* every distribution of amounts.
C21_PercentagesAtMost100 ==
    holders_pc = "done" =>
        SumSeq([i \in 1..Len(holders_out) |-> holders_out[i].percentage]) <= 10000

(***************************************************************************)
(* Wallet assets and holder analysis: SolWalletAgent.get_wallet_assets and *)
(* SolWalletAgent.analyze_holders                                          *)
(***************************************************************************)
\* most token accounts on the page of a small lookup
MaxHolders == 3

\* `total_price > 100`
DustThreshold == 100

\* `[:5]` on the sorted tokens, and on each token's sorted holders
TopTokens == 5
TopTokenHolders == 5

raydium_address == "5Q544fKrFoe6tsEbD7S8EmxGTJYAKtTVhAW5Q5pge4j1"
sol_address == "So11111111111111111111111111111111111111112"

HolderWallets == {"w1", "w2", "w3", "w4", "w5", "w6"}

\* one entry of data["result"]["items"]
AssetItem(id, total_price, priced, mutable) ==
    [id |-> id, total_price |-> total_price, priced |-> priced, mutable |-> mutable]

\* answers of searchAssets: the call raises, the status is neither 200 nor
\* 429 ({} comes back), or a result with items and perhaps a nativeBalance
WalletRaises == [kind |-> "raise", items |-> <<>>, native |-> Null]
WalletHttpError == [kind |-> "http_error", items |-> <<>>, native |-> Null]
EmptyWallet == [kind |-> "ok", items |-> <<>>, native |-> Null]

Holding(tokens, v) ==
    [kind |-> "ok",
     items |-> [i \in 1..Len(tokens) |-> AssetItem(tokens[i], v, TRUE, FALSE)],
     native |-> Null]

MixedWallet ==
    [kind |-> "ok",
     items |-> <<AssetItem("tA", 300, TRUE, FALSE),
                 AssetItem("tB", 200, TRUE, TRUE),
                 AssetItem("tC", 300, FALSE, FALSE)>>,
     native |-> 50]

WideTokens == <<"tA", "tB", "tC", "tD", "tE", "tF">>

WideWallet ==
    [kind |-> "ok",
     items |-> [i \in 1..Len(WideTokens) |->
                   AssetItem(WideTokens[i], 100 * i + 100, TRUE, FALSE)],
     native |-> Null]

RaydiumWallet ==
    [kind |-> "ok",
     items |-> [i \in 1..3 |-> AssetItem(WideTokens[i], 900, TRUE, FALSE)],
     native |-> 900]

WalletData(a, b, c) ==
    [w \in HolderWallets \cup {raydium_address} |->
        CASE w = "w1" -> a
          [] w = "w2" -> b
          [] w = "w3" -> c
          [] w = raydium_address -> RaydiumWallet
          [] OTHER -> WideWallet]

WalletDatas ==
    {WalletData(a, b, c) :
        a \in {WalletRaises, Holding(<<"tA", "tB", "tC">>, 200), MixedWallet,
               WideWallet},
        b \in {WalletHttpError, Holding(<<"tA", "tB", "tC">>, 200),
               Holding(<<"tB", "tA">>, 200), WideWallet},
        c \in {EmptyWallet, Holding(<<"tA", "tB", "tC">>, 200), WideWallet}}
    \cup {WalletData(Holding(<<"tA", "tB", "tC">>, 100),
                     Holding(<<"tA", "tB", "tC">>, 100),
                     Holding(<<"tA", "tB", "tC">>, 100))}

\* token accounts of the given owners, all with amount 1 or with growing amounts
AccountsOf(owners, pattern) ==
    [i \in 1..Len(owners) |->
        [owner |-> owners[i], amount |-> IF pattern = "equal" THEN 1 ELSE i]]

OnePage(accounts) == <<[kind |-> "ok", accounts |-> accounts, cursor |-> FALSE]>>

SmallOwners ==
    UNION {[1..n -> {"w1", "w2", "w3", raydium_address}] : n \in 1..MaxHolders}

WideOwners == <<"w1", "w2", "w3", "w4", "w5", "w6", raydium_address>>

AnalyzePages ==
    {OnePage(AccountsOf(o, p)) :
        o \in SmallOwners \cup {WideOwners}, p \in {"equal", "ascending"}}
    \cup {<<[kind |-> k, accounts |-> <<>>, cursor |-> FALSE]>> :
             k \in {"raise", "http_error"}}
    \cup {OnePage(<<>>), OnePage(<<[owner |-> "w1", amount |-> 0]>>)}

\* a slot of asyncio.gather: not completed, completed with a list, or
\* completed with an exception
PendingResult == [state |-> "pending", assets |-> <<>>]
RaisedResult == [state |-> "raised", assets |-> <<>>]
Fetched(assets) == [state |-> "done", assets |-> assets]

get_wallet_assets_Propagating(resp) ==
    IF resp.kind = "raise" THEN RaisedResult
    ELSE IF resp.kind = "http_error" THEN Fetched(<<>>)
    ELSE LET filtered_assets ==
                 SelectSeq(resp.items,
                           LAMBDA item : item.priced /\ item.total_price > DustThreshold)
             non_mutable_assets == SelectSeq(filtered_assets, LAMBDA asset : ~asset.mutable)
             native == IF resp.native # Null
                       THEN <<[token_address |-> sol_address,
                               total_price |-> resp.native]>>
                       ELSE <<>>
         IN  Fetched(native \o
                     [i \in 1..Len(non_mutable_assets) |->
                         [token_address |-> non_mutable_assets[i].id,
                          total_price |-> non_mutable_assets[i].total_price]])

get_wallet_assets_KeepsMutable(resp) ==
    IF resp.kind = "raise" THEN Fetched(<<>>)
    ELSE IF resp.kind = "http_error" THEN Fetched(<<>>)
    ELSE LET filtered_assets ==
                 SelectSeq(resp.items,
                           LAMBDA item : item.priced /\ item.total_price > DustThreshold)
             native == IF resp.native # Null
                       THEN <<[token_address |-> sol_address,
                               total_price |-> resp.native]>>
                       ELSE <<>>
         IN  Fetched(native \o
                     [i \in 1..Len(filtered_assets) |->
                         [token_address |-> filtered_assets[i].id,
                          total_price |-> filtered_assets[i].total_price]])

\* what get_wallet_assets returns; `except Exception: return []`
get_wallet_assets(resp) ==
    IF resp.kind = "raise" THEN Fetched(<<>>)
    ELSE IF resp.kind = "http_error" THEN Fetched(<<>>)
    ELSE LET filtered_assets ==
                 SelectSeq(resp.items,
                           LAMBDA item : item.priced /\ item.total_price > DustThreshold)
             non_mutable_assets == SelectSeq(filtered_assets, LAMBDA asset : ~asset.mutable)
             native == IF resp.native # Null
                       THEN <<[token_address |-> sol_address,
                               total_price |-> resp.native]>>
                       ELSE <<>>
         IN  Fetched(native \o
                     [i \in 1..Len(non_mutable_assets) |->
                         [token_address |-> non_mutable_assets[i].id,
                          total_price |-> non_mutable_assets[i].total_price]])

TopHolders_KeepAll(holders) == holders

\* [h for h in holders if h["address"] != raydium_address]
TopHolders(holders) == SelectSeq(holders, LAMBDA h : h.address # raydium_address)

\* slot of gather's result list that task i fills
ResultSlot_CompletionOrder(i, done) == Cardinality(done) + 1

ResultSlot(i, done) == i

\* the (holder, token) pairs in the order the merge loop visits them
RECURSIVE Contributions(_, _, _)
Contributions(ths, results, k) ==
    IF k > Len(ths) \/ k > Len(results) THEN <<>>
    ELSE [j \in 1..Len(results[k].assets) |->
             [token_address |-> results[k].assets[j].token_address,
              address |-> ths[k].address,
              total_price |-> results[k].assets[j].total_price,
              percentage |-> ths[k].percentage]]
         \o Contributions(ths, results, k + 1)

HolderEntry(c) ==
    [address |-> c.address, total_price |-> c.total_price, percentage |-> c.percentage]

MergeAssets_NoAccumulate(ths, results) ==
    LET cs == Contributions(ths, results, 1)
        first == {i \in 1..Len(cs) :
                     \A j \in 1..(i - 1) : cs[j].token_address # cs[i].token_address}
        inserted == [k \in 1..Cardinality(first) |->
                        CHOOSE i \in first : Cardinality({j \in first : j < i}) = k - 1]
    IN  [k \in 1..Cardinality(first) |->
            LET t == cs[inserted[k]].token_address
                hs == SelectSeq(cs, LAMBDA c : c.token_address = t)
            IN  [token_address |-> t,
                 total_holding_value |-> hs[1].total_price,
                 holders |-> [i \in 1..Len(hs) |-> HolderEntry(hs[i])]]]

\* token_map.values(): one aggregate per token, in order of first insertion
MergeAssets(ths, results) ==
    LET cs == Contributions(ths, results, 1)
        first == {i \in 1..Len(cs) :
                     \A j \in 1..(i - 1) : cs[j].token_address # cs[i].token_address}
        inserted == [k \in 1..Cardinality(first) |->
                        CHOOSE i \in first : Cardinality({j \in first : j < i}) = k - 1]
    IN  [k \in 1..Cardinality(first) |->
            LET t == cs[inserted[k]].token_address
                hs == SelectSeq(cs, LAMBDA c : c.token_address = t)
            IN  [token_address |-> t,
                 total_holding_value |->
                     SumSeq([i \in 1..Len(hs) |-> hs[i].total_price]),
                 holders |-> [i \in 1..Len(hs) |-> HolderEntry(hs[i])]]]

RankTokens_Unsorted(token_map) == Take(token_map, TopTokens)

RankTokens(token_map) ==
    Take(StableSortDesc(token_map,
             [i \in 1..Len(token_map) |-> token_map[i].total_holding_value]),
         TopTokens)

RankHolders_Uncut(hs) ==
    StableSortDesc(hs, [i \in 1..Len(hs) |-> hs[i].total_price])

RankHolders(hs) ==
    Take(StableSortDesc(hs, [i \in 1..Len(hs) |-> hs[i].total_price]),
         TopTokenHolders)

\* what analyze_holders returns once gather has returned or raised
AnalyzeResult(ths, results) ==
    IF \E i \in 1..Len(results) : results[i].state = "raised" THEN <<>>
    ELSE LET sorted_tokens == RankTokens(MergeAssets(ths, results))
         IN  [k \in 1..Len(sorted_tokens) |->
                 [sorted_tokens[k] EXCEPT !.holders = RankHolders(@)]]

\* analyze_holders up to the creation of the tasks
analyze_holders ==
    /\ analyze_pc = "start"
    /\ holders_out' = GetHolders(token_pages, top_n)
    /\ holders_pc' = "done"
    /\ IF holders_out' = <<>>
       THEN /\ analysis' = <<>>
            /\ analyze_pc' = "done"
            /\ UNCHANGED <<top_holders, fetch_issued, fetched, assets_results>>
       ELSE /\ top_holders' = TopHolders(holders_out')
            /\ fetch_issued' = {top_holders'[i].address : i \in 1..Len(top_holders')}
            /\ fetched' = {}
            /\ assets_results' = [i \in 1..Len(top_holders') |-> PendingResult]
            /\ analyze_pc' = "gather"
            /\ UNCHANGED analysis
    /\ UNCHANGED <<token_pages, top_n, wallet_data, dvars, tvars, ovars>>

\* one get_wallet_assets task completes
FetchCompletes(i) ==
    /\ analyze_pc = "gather"
    /\ i \in (1..Len(top_holders)) \ fetched
    /\ assets_results' =
           [assets_results EXCEPT ![ResultSlot(i, fetched)] =
               get_wallet_assets(wallet_data[top_holders[i].address])]
    /\ fetched' = fetched \cup {i}
    /\ UNCHANGED <<analyze_pc, wallet_data, top_holders, fetch_issued, analysis,
                   dvars, tvars, hvars, ovars>>

GatherDone_FirstCompleted(done, n) == done # {} \/ n = 0

\* `await asyncio.gather(*tasks)` returns when each of the n tasks is done
GatherDone(done, n) == done = 1..n

\* gather returns; merge, rank, return
GatherReturns ==
    /\ analyze_pc = "gather"
    /\ GatherDone(fetched, Len(top_holders))
    /\ analysis' = AnalyzeResult(top_holders, assets_results)
    /\ analyze_pc' = "done"
    /\ UNCHANGED <<wallet_data, top_holders, fetch_issued, fetched, assets_results,
                   dvars, tvars, hvars, ovars>>

InitAnalyze ==
    /\ SolAtRest
    /\ TradeAtRest
    /\ OthersAtRest
    /\ holders_pc = "start"
    /\ token_pages \in AnalyzePages
    /\ top_n \in {2, 20}
    /\ holders_out = <<>>
    /\ analyze_pc = "start"
    /\ wallet_data \in WalletDatas
    /\ top_holders = <<>>
    /\ fetch_issued = {}
    /\ fetched = {}
    /\ assets_results = <<>>
    /\ analysis = <<>>

NextAnalyze ==
    \/ analyze_holders
    \/ \E i \in 1..(Len(WideOwners)) : FetchCompletes(i)
    \/ GatherReturns

SpecAnalyze == InitAnalyze /\ [][NextAnalyze]_vars

(***************************************************************************)
(* Properties of the holder analysis                                       *)
(***************************************************************************)
\* the holders the lookup yields for the inputs, and the asset list of each
\* non-excluded one, read from the upstream answers
LookedUp == GetHolders(token_pages, top_n)

NonExcluded == SelectSeq(LookedUp, LAMBDA h : h.address # raydium_address)

AssetListOf(address) == get_wallet_assets(wallet_data[address]).assets

\* value of token t in an asset list
ValueIn(assets, t) ==
    SumSeq([j \in 1..Len(assets) |->
               IF assets[j].token_address = t THEN assets[j].total_price ELSE 0])

Holds(assets, t) == \E j \in 1..Len(assets) : assets[j].token_address = t

\* sum of token t over the given holders
HeldValue(hs, t) ==
    SumSeq([i \in 1..Len(hs) |-> ValueIn(AssetListOf(hs[i].address), t)])

LookupFailed == ~CollectAccounts(token_pages, 1, <<>>).ok

\* C11: analyze_holders returns at most 5 token aggregates and each
\* aggregate's holders list has at most 5 entries.
C11_AtMostFive ==
    /\ Len(analysis) <= 5
    /\ \A k \in 1..Len(analysis) : Len(analysis[k].holders) <= 5

C11_Witness ==
    /\ analyze_pc = "done"
    /\ Len(NonExcluded) > 5
    /\ \A i \in 1..Len(NonExcluded) :
           Len(AssetListOf(NonExcluded[i].address)) > 5
    /\ Len(analysis) = 5
    /\ \A k \in 1..Len(analysis) : Len(analysis[k].holders) = 5

\* C12: for fixed upstream answers the returned sequence (order of
\* aggregates, order of holders inside each, totals) is the one obtained from
\* the asset lists taken in holder order, whatever order the concurrent
\* fetches completed in, ties on value included.
C12_CompletionOrderIrrelevant ==
    analyze_pc = "done" =>
        analysis =
            IF LookedUp = <<>> THEN <<>>
            ELSE AnalyzeResult(NonExcluded,
                     [i \in 1..Len(NonExcluded) |->
                         Fetched(AssetListOf(NonExcluded[i].address))])

C12_Witness ==
    /\ analyze_pc = "done"
    /\ Len(top_holders) >= 2
    /\ AssetListOf(top_holders[1].address) # AssetListOf(top_holders[2].address)
    /\ Len(analysis) >= 2
    /\ analysis[1].total_holding_value = analysis[2].total_holding_value
    /\ Len(analysis[1].holders) >= 2
    /\ analysis[1].holders[1].total_price = analysis[1].holders[2].total_price

\* tasks whose searchAssets call raises
FailedTasks ==
    {i \in 1..Len(top_holders) : wallet_data[top_holders[i].address].kind = "raise"}

Surviving(q) ==
    SelectSeq(q, LAMBDA h : wallet_data[h.address].kind # "raise")

\* C13: when one of the N concurrent asset fetches fails with a transport
\* error, it resolves to an empty contribution, every sibling still
\* completes, and the result is the ranked aggregates of the other N-1
\* holders.
C13_OneFetchFails ==
    (analyze_pc = "done" /\ LookedUp # <<>> /\ Cardinality(FailedTasks) = 1) =>
        /\ fetched = 1..Len(top_holders)
        /\ \A i \in 1..Len(top_holders) : assets_results[i].state = "done"
        /\ \A i \in FailedTasks : assets_results[i].assets = <<>>
        /\ analysis =
               AnalyzeResult(Surviving(top_holders),
                   [i \in 1..Len(Surviving(top_holders)) |->
                       Fetched(AssetListOf(Surviving(top_holders)[i].address))])

C13_Witness ==
    /\ analyze_pc = "done"
    /\ Cardinality(FailedTasks) = 1
    /\ Len(top_holders) = 3
    /\ analysis # <<>>
    /\ \A k \in 1..Len(analysis) : Len(analysis[k].holders) = 2

\* every returned total is the sum over all non-excluded holders whose asset
\* list contains the token
TotalsAreSums ==
    analyze_pc = "done" =>
        \A k \in 1..Len(analysis) :
            analysis[k].total_holding_value =
                HeldValue(SelectSeq(NonExcluded,
                              LAMBDA h : Holds(AssetListOf(h.address),
                                               analysis[k].token_address)),
                          analysis[k].token_address)

\* three non-excluded holders whose wallets each hold the same 3 tokens, each
\* worth v
ThreeHoldersOf(v) ==
    /\ Len(LookedUp) = 3
    /\ \A i \in 1..3 :
           /\ LookedUp[i].address # raydium_address
           /\ wallet_data[LookedUp[i].address] = Holding(<<"tA", "tB", "tC">>, v)

ThreeTokensOf(total) ==
    /\ Len(analysis) = 3
    /\ \A k \in 1..3 :
           /\ analysis[k].total_holding_value = total
           /\ Len(analysis[k].holders) = 3

C15_LookupFailureFlagged ==
    analyze_pc = "done" =>
        /\ LookupFailed => analysis # <<>>
        /\ (~LookupFailed /\ AccountsRead(token_pages) = <<>>) => analysis = <<>>

\* C16: the excluded protocol wallet never contributes: no asset fetch is
\* issued for it, it is in no aggregate's holders list, and its holdings are
\* in no total.
C16_ExcludedWalletAbsent ==
    /\ raydium_address \notin fetch_issued
    /\ \A k \in 1..Len(analysis) :
           /\ \A i \in 1..Len(analysis[k].holders) :
                  analysis[k].holders[i].address # raydium_address
           /\ analysis[k].total_holding_value =
                  HeldValue(NonExcluded, analysis[k].token_address)

C16_Witness ==
    /\ analyze_pc = "done"
    /\ \E i \in 1..Len(holders_out) : holders_out[i].address = raydium_address
    /\ analysis # <<>>
    /\ \E k \in 1..Len(analysis) : Holds(AssetListOf(raydium_address),
                                         analysis[k].token_address)

\* the asset list of each non-excluded holder, in holder order
AssetLists == [i \in 1..Len(NonExcluded) |-> AssetListOf(NonExcluded[i].address)]

\* the tokens the merge sees, and the holders that contribute to one
TokensIn(lists) ==
    UNION {{lists[i][j].token_address : j \in 1..Len(lists[i])} : i \in 1..Len(lists)}

MergedTokens == TokensIn(AssetLists)

ContributorsIn(lists, t) == {i \in 1..Len(lists) : Holds(lists[i], t)}

TotalIn(lists, t) == SumSeq([i \in 1..Len(lists) |-> ValueIn(lists[i], t)])

Smaller(a, b) == IF a < b THEN a ELSE b

\* positions of hs at which a wallet address appears for the first time
FirstOfWallet(hs) ==
    {i \in 1..Len(hs) : \A j \in 1..(i - 1) : hs[j].address # hs[i].address}

\* C35: within one token aggregate each holder address appears at most once
\* and each wallet's holding of the token is counted exactly once in
\* total_holding_value, also when the holder listing has several token
\* accounts owned by the same address.
C35_WalletCountedOnce ==
    analyze_pc = "done" =>
        LET ne == NonExcluded
            once == FirstOfWallet(ne)
        IN  \A k \in 1..Len(analysis) :
               LET hs == analysis[k].holders
                   t == analysis[k].token_address
               IN  /\ \A i, j \in 1..Len(hs) :
                          hs[i].address = hs[j].address => i = j
                   /\ analysis[k].total_holding_value =
                          SumSeq([i \in 1..Len(ne) |->
                                     IF i \in once
                                     THEN ValueIn(AssetListOf(ne[i].address), t)
                                     ELSE 0])

\* C28: the returned aggregates are the (up to) five merged tokens with the
\* greatest total_holding_value, in non-increasing order; each aggregate's
\* holders are its (up to) five contributions with the greatest total_value,
\* in non-increasing order.
C28_RankedTopFive ==
    analyze_pc = "done" =>
        LET ne == NonExcluded
            lists == AssetLists
            merged == TokensIn(lists)
            n == Len(analysis)
        IN  /\ n = Smaller(5, Cardinality(merged))
            /\ \A k \in 1..(n - 1) :
                   analysis[k].total_holding_value >= analysis[k + 1].total_holding_value
            /\ \A k \in 1..n :
                   /\ analysis[k].token_address \in merged
                   /\ analysis[k].total_holding_value =
                          TotalIn(lists, analysis[k].token_address)
                   /\ \A l \in 1..n :
                          analysis[l].token_address = analysis[k].token_address => l = k
            /\ \A t \in merged :
                   TotalIn(lists, t) > analysis[n].total_holding_value
                       => \E k \in 1..n : analysis[k].token_address = t
            /\ \A k \in 1..n :
                   LET hs == analysis[k].holders
                       t == analysis[k].token_address
                       cs == ContributorsIn(lists, t)
                   IN  /\ Len(hs) = Smaller(5, Cardinality(cs))
                       /\ \A j \in 1..(Len(hs) - 1) :
                              hs[j].total_price >= hs[j + 1].total_price
                       /\ \A j \in 1..Len(hs) :
                              \E i \in cs :
                                  /\ ne[i].address = hs[j].address
                                  /\ ValueIn(lists[i], t) = hs[j].total_price
                       /\ \A i \in cs :
                              ValueIn(lists[i], t) > hs[Len(hs)].total_price =>
                                  \E j \in 1..Len(hs) :
                                      /\ hs[j].address = ne[i].address
                                      /\ hs[j].total_price = ValueIn(lists[i], t)

C28_Witness ==
    /\ analyze_pc = "done"
    /\ Cardinality(MergedTokens) > 5
    /\ Len(analysis) = 5
    /\ analysis[1].token_address = "tF"
    /\ analysis[1].total_holding_value > analysis[5].total_holding_value
    /\ \E k \in 1..5 :
           /\ Len(analysis[k].holders) >= 2
           /\ analysis[k].holders[1].total_price
                  > analysis[k].holders[Len(analysis[k].holders)].total_price

\* C29: every per-holder fetch is issued before any is awaited, and the merge
\* into the token mapping starts only after every fetch has resolved: no
\* fetch is outstanding in the step that writes the result.
C29_MergeAfterAllFetches ==
    /\ [](analyze_pc = "gather" =>
             /\ fetch_issued = {top_holders[i].address : i \in 1..Len(top_holders)}
             /\ Len(assets_results) = Len(top_holders)
             /\ analysis = <<>>)
    /\ [][(analyze_pc = "gather" /\ analyze_pc' = "done") =>
             /\ fetched = 1..Len(top_holders)
             /\ \A i \in 1..Len(top_holders) : assets_results[i].state # "pending"
             /\ UNCHANGED <<fetched, assets_results>>]_vars

C29_Witness ==
    /\ analyze_pc = "gather"
    /\ Len(top_holders) >= 3
    /\ fetched = 1..Len(top_holders)
    /\ \A i \in 1..Len(top_holders) : assets_results[i].assets # <<>>
    /\ analysis = <<>>

(***************************************************************************)
(* Operations that read an indexer, under their retry decorators           *)
(***************************************************************************)
\* stop_after_attempt(5)
StopAfterAttempt == 5

IndexerOps == {"_get_holders", "get_wallet_assets", "get_tx_history",
               "get_token_trading_info", "get_top_trending_tokens"}

\* the operations decorated with tenacity's @retry
Retrying == {"_get_holders", "get_wallet_assets", "get_tx_history"}

\* what a request to the indexer does: the client raises a transport error,
\* the request times out, the JSON has an unexpected shape, or a usable answer
IndexerAnswers == {"client_error", "timeout", "shape", "ok"}

TransportFailures == {"client_error", "timeout"}

\* how one execution of the operation's body ends for an answer: with a
\* value, an empty list, a value carrying "error", or an escaping exception
Body(op, answer) ==
    IF op \in {"_get_holders", "get_wallet_assets"}
    THEN IF answer = "ok" THEN [kind |-> "value", exc |-> None]
         ELSE [kind |-> "empty", exc |-> None]
    ELSE IF op = "get_tx_history"
    THEN CASE answer = "ok" -> [kind |-> "value", exc |-> None]
           [] answer = "shape" -> [kind |-> "empty", exc |-> None]
           [] OTHER -> [kind |-> "error_value", exc |-> None]
    ELSE IF answer = "ok" THEN [kind |-> "value", exc |-> None]
         ELSE [kind |-> "error_value", exc |-> None]

\* retry_if_exception_type((aiohttp.ClientError, asyncio.TimeoutError)), or
\* tenacity's default of every exception
RetriedBy(op, e) ==
    /\ op \in Retrying
    /\ op = "get_tx_history" \/ e \in {"ClientError", "TimeoutError"}

\* the body runs once: one request, then the body's own try/except
indexer_call ==
    /\ ix_pc = "call"
    /\ ix_calls' = ix_calls + 1
    /\ ix_body' = Body(ix_op, ix_answers[ix_calls + 1])
    /\ ix_pc' = "returned"
    /\ UNCHANGED <<ix_op, ix_answers, ix_out, wvars, svars, nvars,
                   dvars, tvars, hvars, avars, cvars>>

\* the decorator sees how the body ended
retry_decides ==
    /\ ix_pc = "returned"
    /\ IF ix_body.kind = "raised" /\ RetriedBy(ix_op, ix_body.exc)
          /\ ix_calls < StopAfterAttempt
       THEN ix_pc' = "call" /\ UNCHANGED ix_out
       ELSE ix_pc' = "done" /\ ix_out' = ix_body
    /\ UNCHANGED <<ix_op, ix_answers, ix_calls, ix_body, wvars, svars, nvars,
                   dvars, tvars, hvars, avars, cvars>>

InitIndexer ==
    /\ DispatcherInit
    /\ SessionAtRest
    /\ TradeAtRest
    /\ HoldersAtRest
    /\ AnalyzeAtRest
    /\ AssetsAtRest
    /\ TxAtRest
    /\ ToolAtRest
    /\ ix_pc = "call"
    /\ ix_op \in IndexerOps
    /\ agent = (IF ix_op \in Retrying THEN "sol" ELSE "bitquery")
    /\ ix_answers \in [1..StopAfterAttempt -> IndexerAnswers]
    /\ ix_calls = 0
    /\ ix_body = NoBody
    /\ ix_out = NoBody

NextIndexer == indexer_call \/ retry_decides

SpecIndexer == InitIndexer /\ [][NextIndexer]_vars

\* transport failures the indexer answers with before anything else
RECURSIVE LeadingFailures(_, _)
LeadingFailures(answers, k) ==
    IF k > Len(answers) \/ answers[k] \notin TransportFailures THEN 0
    ELSE 1 + LeadingFailures(answers, k + 1)

\* C22: a transport failure in an indexer call of the holder lookup, the
\* asset fetch or the transaction-history fetch is retried up to the attempt
\* cap before the operation yields a result; once the attempts are exhausted
\* the outcome is a data-level error value, never a raised exception.
C22_TransportFailureRetried ==
    (ix_pc = "done" /\ ix_op \in Retrying) =>
        LET f == LeadingFailures(ix_answers, 1)
        IN  /\ ix_calls = IF f < StopAfterAttempt THEN f + 1 ELSE StopAfterAttempt
            /\ f = StopAfterAttempt => ix_out.kind = "error_value"
            /\ ix_out.kind # "raised"

\* C23: an answer of unexpected JSON shape is surfaced at once as an
\* error-flagged result, without retry, by every operation that reads an
\* indexer response (trade buckets, trending list, wallet assets, holders).
C23_ShapeErrorSurfaced ==
    (/\ ix_pc = "done"
     /\ ix_op \in {"get_token_trading_info", "get_top_trending_tokens",
                   "get_wallet_assets", "_get_holders"}
     /\ ix_answers[1] = "shape") =>
        /\ ix_calls = 1
        /\ ix_out.kind = "error_value"

(***************************************************************************)
(* The get_sol_wallet_assets tool: _handle_tool_logic over get_wallet_assets *)
(***************************************************************************)
\* most items in a searchAssets answer
MaxItems == 2

AssetItems ==
    {AssetItem(id, v, priced, mutable) :
        id \in {"tA", "tB"}, v \in {100, 101, 300},
        priced \in BOOLEAN, mutable \in BOOLEAN}

AssetResponses ==
    {WalletRaises, WalletHttpError}
    \cup [kind : {"ok"},
          items : UNION {[1..n -> AssetItems] : n \in 0..MaxItems},
          native : {Null, 50, 500}]

\* result = await self.get_wallet_assets(...); a list has no "error" element,
\* so _handle_error lets it through
get_sol_wallet_assets ==
    /\ assets_pc = "start"
    /\ assets_out' = get_wallet_assets(assets_resp).assets
    /\ assets_pc' = "done"
    /\ UNCHANGED <<assets_resp, xvars, svars, nvars, dvars, tvars, hvars, avars, cvars>>

InitAssets ==
    /\ SolAtRest
    /\ SessionAtRest
    /\ TradeAtRest
    /\ HoldersAtRest
    /\ AnalyzeAtRest
    /\ IndexerAtRest
    /\ TxAtRest
    /\ ToolAtRest
    /\ assets_pc = "start"
    /\ assets_resp \in AssetResponses
    /\ assets_out = <<>>

NextAssets == get_sol_wallet_assets

SpecAssets == InitAssets /\ [][NextAssets]_vars

\* positions of the result that are not the native-currency holding
NonNativePositions ==
    {i \in 1..Len(assets_out) : ~(i = 1 /\ assets_resp.native # Null)}

C25_OrderedByValue ==
    assets_pc = "done" =>
        \A i \in 1..(Len(assets_out) - 1) :
            assets_out[i].total_price >= assets_out[i + 1].total_price

(***************************************************************************)
(* The get_sol_tx_history tool: _handle_tool_logic over get_tx_history     *)
(* Amounts are left out of the returned records; only the addresses and    *)
(* the type are kept.                                                      *)
(***************************************************************************)
\* most transactions in an answer
MaxTxs == 2

\* SOL_ADDRESS of get_tx_history
SOL_ADDRESS == "So11111111111111111111111111111111111111112"

\* tokenInputs / tokenOutputs of a swap event, by mint
MintLists == {<<>>, <<SOL_ADDRESS>>, <<"USDC">>, <<"USDC", SOL_ADDRESS>>}

\* events.swap: the native amounts (0 when absent) and the token lists
SwapEvents ==
    [nativeInput : {0, 5}, tokenInputs : MintLists,
     nativeOutput : {0, 5}, tokenOutputs : MintLists]

NoSwapEvent ==
    [nativeInput |-> Null, tokenInputs |-> <<>>,
     nativeOutput |-> Null, tokenOutputs |-> <<>>]

Transactions ==
    [type : {"SWAP"}, swap : SwapEvents \cup {NoSwapEvent}]
    \cup {[type |-> "TRANSFER", swap |-> NoSwapEvent]}

\* what self._get gives: it raises, nothing, a dict, or a list
TxAnswers ==
    {[kind |-> k, txs |-> <<>>] : k \in {"raise", "empty", "dict"}}
    \cup [kind : {"list"}, txs : UNION {[1..n -> Transactions] : n \in 1..MaxTxs}]

\* token_in_address: SOL for a native input, else the first token input
TokenIn(e) ==
    IF e.nativeInput # 0 THEN SOL_ADDRESS
    ELSE IF e.tokenInputs # <<>> THEN e.tokenInputs[1]
    ELSE None

TokenOut(e) ==
    IF e.nativeOutput # 0 THEN SOL_ADDRESS
    ELSE IF e.tokenOutputs # <<>> THEN e.tokenOutputs[1]
    ELSE None

TxType_NoSell(token_in, token_out) ==
    IF token_in = SOL_ADDRESS THEN "BUY"
    ELSE "SWAP"

\* "Determine transaction type"
TxType(token_in, token_out) ==
    IF token_in = SOL_ADDRESS THEN "BUY"
    ELSE IF token_out = SOL_ADDRESS THEN "SELL"
    ELSE "SWAP"

ProcessSwap(e) ==
    [kind |-> "swap",
     token_in_address |-> TokenIn(e),
     token_out_address |-> TokenOut(e),
     type |-> TxType(TokenIn(e), TokenOut(e)),
     event |-> e]

TxFailure ==
    [kind |-> "error", token_in_address |-> None, token_out_address |-> None,
     type |-> None, event |-> NoSwapEvent]

\* what get_tx_history returns; each returned record keeps its swap event
\* for reference
GetTxHistory(answer) ==
    IF answer.kind = "raise" THEN <<TxFailure>>
    ELSE IF answer.kind \in {"empty", "dict"} THEN <<>>
    ELSE LET swap_type == SelectSeq(answer.txs,
                              LAMBDA tx : tx.type = "SWAP" /\ tx.swap # NoSwapEvent)
         IN  [i \in 1..Len(swap_type) |-> ProcessSwap(swap_type[i].swap)]

\* result = await self.get_tx_history(...); the result is a list, which
\* _handle_error lets through
get_sol_tx_history ==
    /\ tx_pc = "start"
    /\ tx_out' = GetTxHistory(tx_data)
    /\ tx_pc' = "done"
    /\ UNCHANGED <<tx_data, xvars, wvars, nvars, dvars, tvars, hvars, avars, cvars>>

InitTx ==
    /\ SolAtRest
    /\ SessionAtRest
    /\ TradeAtRest
    /\ HoldersAtRest
    /\ AnalyzeAtRest
    /\ IndexerAtRest
    /\ AssetsAtRest
    /\ ToolAtRest
    /\ tx_pc = "start"
    /\ tx_data \in TxAnswers
    /\ tx_out = <<>>

NextTx == get_sol_tx_history

SpecTx == InitTx /\ [][NextTx]_vars

\* C26: every returned swap is BUY when SOL is the input used to purchase
\* another token, SELL when a token is converted to SOL, and SWAP exactly
\* when neither side is SOL, for every combination of native and token
\* inputs and outputs of the swap event.
C26_SwapClassification ==
    tx_pc = "done" =>
        \A i \in 1..Len(tx_out) :
            tx_out[i].kind = "swap" =>
                LET r == tx_out[i]
                    e == r.event
                    sol_in == r.token_in_address = SOL_ADDRESS
                    sol_out == r.token_out_address = SOL_ADDRESS
                IN  /\ r.type \in {"BUY", "SELL", "SWAP"}
                    /\ (sol_in /\ ~sol_out) => r.type = "BUY"
                    /\ (~sol_in /\ sol_out) => r.type = "SELL"
                    /\ r.type = "SWAP" <=> (~sol_in /\ ~sol_out)
                    /\ e.nativeInput # 0 => sol_in
                    /\ e.nativeOutput # 0 => sol_out
                    /\ (e.nativeInput = 0 /\ e.tokenInputs = <<"USDC">>) => ~sol_in
                    /\ (e.nativeOutput = 0 /\ e.tokenOutputs = <<"USDC">>) => ~sol_out
                    /\ (e.nativeInput # 0 /\ e.nativeOutput = 0
                           /\ e.tokenOutputs = <<"USDC">>) => r.type = "BUY"
                    /\ (e.nativeInput = 0 /\ e.tokenInputs = <<"USDC">>
                           /\ e.nativeOutput # 0) => r.type = "SELL"
                    /\ (e.nativeInput = 0 /\ e.tokenInputs = <<"USDC">>
                           /\ e.nativeOutput = 0 /\ e.tokenOutputs = <<"USDC">>)
                           => r.type = "SWAP"

C26_Witness ==
    /\ tx_pc = "done"
    /\ Len(tx_out) = 2
    /\ tx_out[1].type = "SELL"
    /\ tx_out[1].event.tokenInputs = <<"USDC">>
    /\ tx_out[1].event.nativeOutput # 0
    /\ tx_out[2].type = "BUY"
    /\ tx_out[2].event.nativeInput # 0
    /\ tx_out[2].event.tokenOutputs = <<"USDC">>

(***************************************************************************)
(* The analyze_sol_token_holders tool: _handle_tool_logic over             *)
(* analyze_holders, up to the creation of the asset-fetch tasks            *)
(***************************************************************************)
\* function_args.get("top_n", 20)
DefaultTopN == 20

\* top_n given by the caller; Null when function_args has no top_n
TopNArguments == {Null, 1, 2, 3, 20, 100, 101, 150}

\* how many token accounts the mint has
AccountCounts == {0, 1, 2, 3, 20, 21, 100, 101, 150}

\* n accounts of n different owners, one page
AccountsOfMint(n) ==
    OnePage([i \in 1..n |-> [owner |-> "h" \o ToString(i), amount |-> 1]])

ToolTopN(args) == IF args = Null THEN DefaultTopN ELSE args

analyze_sol_token_holders ==
    /\ tool_pc = "start"
    /\ tool_top_n' = ToolTopN(function_args)
    /\ tasks_issued' =
           Len(TopHolders(GetHolders(AccountsOfMint(accounts_found), tool_top_n')))
    /\ tool_pc' = "done"
    /\ UNCHANGED <<function_args, accounts_found, xvars, wvars, svars,
                   dvars, tvars, hvars, avars, cvars>>

InitTool ==
    /\ SolAtRest
    /\ SessionAtRest
    /\ TradeAtRest
    /\ HoldersAtRest
    /\ AnalyzeAtRest
    /\ IndexerAtRest
    /\ AssetsAtRest
    /\ TxAtRest
    /\ tool_pc = "start"
    /\ function_args \in TopNArguments
    /\ accounts_found \in AccountCounts
    /\ tool_top_n = 0
    /\ tasks_issued = 0

NextTool == analyze_sol_token_holders

SpecTool == InitTool /\ [][NextTool]_vars

\* C27: analyze_sol_token_holders uses top_n = 20 when the argument is absent
\* and never analyzes more than 100 holders: at most 100 per-holder asset
\* fetches are issued, for every top_n argument.
C27_TopNDefaultAndCap ==
    tool_pc = "done" =>
        /\ function_args = Null => tool_top_n = 20
        /\ tasks_issued <= 100

(***************************************************************************)
(* The HTTP session of a SolWalletAgent                                    *)
(*   __aenter__, __aexit__, handle_message (first lines and finally),      *)
(*   _request                                                              *)
(* The callers are tasks of one event loop that await handle_message on    *)
(* the same agent.  A call is suspended only at its awaits: between two    *)
(* of them it runs alone.  The owner of the agent enters and leaves the    *)
(* `async with` block while no call is in progress.  close() of a session  *)
(* is taken as one step with the statement after it.                       *)
(***************************************************************************)
\* the ClientSession objects not made yet
Unborn == {s \in 1..MaxSessions : client_sessions[s] = "unborn"}

\* aiohttp.ClientSession()
NewSession == CHOOSE s \in Unborn : \A u \in Unborn : s <= u

\* await session.close()
Closed(sessions, s) ==
    IF s = NoSession THEN sessions ELSE [sessions EXCEPT ![s] = "closed"]

Running(c) == calls[c].pc = "running"

OutsideSession == <<dvars, tvars, hvars, avars, xvars, wvars, svars, nvars>>

\* __aenter__
aenter ==
    /\ ~in_context
    /\ \A c \in Callers : ~Running(c)
    /\ Unborn # {}
    /\ self_session' = NewSession
    /\ client_sessions' = [client_sessions EXCEPT ![NewSession] = "open"]
    /\ in_context' = TRUE
    /\ UNCHANGED <<calls, overlapped, OutsideSession>>

\* __aexit__
aexit ==
    /\ in_context
    /\ \A c \in Callers : ~Running(c)
    /\ client_sessions' = Closed(client_sessions, self_session)
    /\ self_session' = NoSession
    /\ in_context' = FALSE
    /\ UNCHANGED <<calls, overlapped, OutsideSession>>

\* handle_message up to its first await: `if not self.session` makes a
\* session and sets session_created; the call will send n requests
call_begins(c, n) ==
    /\ ~Running(c)
    /\ LET create == self_session = NoSession IN
       /\ create => Unborn # {}
       /\ self_session' = IF create THEN NewSession ELSE self_session
       /\ client_sessions' =
             IF create THEN [client_sessions EXCEPT ![NewSession] = "open"]
             ELSE client_sessions
       /\ calls' = [calls EXCEPT ![c] =
                      [pc |-> "running", session_created |-> create,
                       requests |-> n, using |-> NoSession, found |-> "none"]]
    /\ overlapped' = (overlapped \/ \E d \in Callers \ {c} : Running(d))
    /\ UNCHANGED <<in_context, OutsideSession>>

\* _request: `if not self.session` raises RuntimeError, otherwise the
\* request goes out on the session the attribute refers to
request_sent(c) ==
    /\ Running(c)
    /\ calls[c].requests > 0
    /\ calls[c].using = NoSession
    /\ calls' = IF self_session = NoSession
                THEN [calls EXCEPT ![c].found = "uninitialized",
                                   ![c].requests = 0]
                ELSE [calls EXCEPT ![c].using = self_session]
    /\ UNCHANGED <<self_session, client_sessions, in_context, overlapped,
                   OutsideSession>>

\* the request ends: with an error when its session was closed meanwhile
request_done(c) ==
    /\ Running(c)
    /\ calls[c].using # NoSession
    /\ calls' = IF client_sessions[calls[c].using] = "closed"
                THEN [calls EXCEPT ![c].found = "closed", ![c].requests = 0,
                                   ![c].using = NoSession]
                ELSE [calls EXCEPT ![c].found = "ok", ![c].requests = @ - 1,
                                   ![c].using = NoSession]
    /\ UNCHANGED <<self_session, client_sessions, in_context, overlapped,
                   OutsideSession>>

\* handle_message returns: the finally clause closes self.session when this
\* call made a session, and then sets self.session to None
call_returns(c) ==
    /\ Running(c)
    /\ calls[c].requests = 0
    /\ calls[c].using = NoSession
    /\ client_sessions' = IF calls[c].session_created
                          THEN Closed(client_sessions, self_session)
                          ELSE client_sessions
    /\ self_session' = NoSession
    /\ calls' = [calls EXCEPT ![c].pc = "done"]
    /\ UNCHANGED <<in_context, overlapped, OutsideSession>>

InitSession ==
    /\ SolAtRest
    /\ TradeAtRest
    /\ HoldersAtRest
    /\ AnalyzeAtRest
    /\ IndexerAtRest
    /\ AssetsAtRest
    /\ TxAtRest
    /\ ToolAtRest
    /\ SessionAtRest

NextSession ==
    \/ aenter
    \/ aexit
    \/ \E c \in Callers, n \in 0..MaxRequests : call_begins(c, n)
    \/ \E c \in Callers : request_sent(c)
    \/ \E c \in Callers : request_done(c)
    \/ \E c \in Callers : call_returns(c)

SpecSession == InitSession /\ [][NextSession]_vars

\* nothing is in progress on the agent
Quiescent == ~in_context /\ \A c \in Callers : ~Running(c)

\* C32: every session opened for a SolWalletAgent, by __aenter__ or by
\* handle_message, is closed in the end: after a sequence of __aenter__,
\* handle_message calls and __aexit__ (one call at a time) no opened session
\* is left unclosed, and a handle_message call that did not make the session
\* leaves self.session as it found it.
C32_SessionsClosed ==
    /\ []((Quiescent /\ ~overlapped) =>
             \A s \in 1..MaxSessions : client_sessions[s] # "open")
    /\ [][\A c \in Callers :
             (/\ ~overlapped'
              /\ Running(c)
              /\ calls'[c].pc = "done"
              /\ ~calls[c].session_created)
             => self_session' = self_session]_vars

\* C33: when two handle_message calls run concurrently on one SolWalletAgent,
\* no request of either call finds the session uninitialized or closed.
C33_ConcurrentCallsKeepSession ==
    \A c \in Callers : calls[c].found \notin {"uninitialized", "closed"}

====
